---- MODULE Spec2Model ----
(***************************************************************************)
(* A model of epub-mathml-converter: the archive reader and writer         *)
(* (extractEpub, repackEpub, resolveArchiveEntryPath), the document        *)
(* transformer (convertMathInFileByFormat, appendStylesIfMissingByFormat), *)
(* the bounded-concurrency transform phase and the pipeline driver (main). *)
(*                                                                         *)
(* Strings are sequences of one-character strings, so that startsWith,     *)
(* path.resolve and localeCompare are computed character by character.     *)
(* Paths follow node:path's POSIX flavour (path.sep = "/").                *)
(***************************************************************************)
EXTENDS Integers, Sequences, FiniteSets, TLC

(***************************************************************************)
(* Bounds of the model.                                                    *)
(***************************************************************************)
\* longest archive entry name drawn for resolveArchiveEntryPath
MaxNameLen == 4

\* most entries of an input container
MaxEntries == 2
\* most files of a scratch tree given to repackEpub
MaxTreeFiles == 4
\* most tokens of the body of a document given to the transformer alone
MaxDocLen == 4
\* most tokens of a document given to appendStylesIfMissingByFormat alone
MaxStyledLen == 3
\* most successive calls of appendStylesIfMissingByFormat on a document
MaxApplications == 2
\* most descendant elements of an <svg> given to injectSvgAttributes
MaxDescendants == 1
\* most documents of a transform phase
MaxDocs == 2
\* largest concurrency configured
MaxLimit == 2

SLASH == "/"
BACKSLASH == "\\"

\* mkdtemp's directory and the extraction root main() derives from it
TempRoot == <<SLASH, "t">>
ExtractRoot == TempRoot \o <<SLASH, "b">>

VARIABLES
    fs,         \* the filesystem: absolute path -> [kind |-> "dir"] or
                \* [kind |-> "file", data |-> contents]
    pRoot,      \* resolveArchiveEntryPath: the extraction root given
    pName,      \* resolveArchiveEntryPath: the entry name given
    pOut,       \* its outcome
    pPc,        \* "call" before the call, "done" after it
    container,  \* extractEpub: the input container's entries, in its order
    exPc,       \* extractEpub: where it stands
    exIdx,      \* the number of entries yauzl has delivered so far
    exDest,     \* processEntry's destination
    settled,    \* finish's flag
    closeCount, \* the number of zipFile.close() calls
    exOutcome,  \* "pending", "resolved" or "rejected"
    rpPc,       \* repackEpub: where it stands
    allFiles,   \* repackEpub: what getAllFiles returned
    otherFiles, \* repackEpub: the filtered and sorted list
    zipEntries, \* the entries added to the yazl ZipFile, in order
    output,     \* the file at outputPath: "old" (there before the run),
                \* "absent", "partial" or "complete"
    rpOutcome,  \* "pending", "resolved", "missing-mimetype" or "rejected"
    format,     \* the output format, "png" or "svg"
    limit,      \* the configured concurrency
    docs,       \* the transform phase's document list (xhtmlFiles)
    origDocs,   \* the contents of the documents when the phase began
    nextIndex,  \* the shared counter: the number of documents claimed
    wPc,        \* per worker: where its current operation stands
    wIdx,       \* per worker: the index of the document it works on
    wBuf,       \* per worker: the content it is writing
    wRes,       \* per worker: the result of convertMathInFileByFormat
    results,    \* the result slots, one per document
    written,    \* the paths writeFile was called on, in call order
    tfOutcome,  \* "off", "ready" (not started), "pending", "resolved" or
                \* "rejected"
    ioFailed,   \* whether a readFile or writeFile of the phase has failed
    mainPc,     \* main: where it stands
    mainError,  \* main: the error it ends with, "none" when it has none
    outputBefore, \* the file at outputPath when the run began
    stApplied,  \* the number of calls of appendStylesIfMissingByFormat made
                \* on the document, when it is called on its own
    inj         \* injectSvgAttributes called on its own: its arguments, where
                \* the call stands and what it returned

pathVars == <<pRoot, pName, pOut, pPc>>
exVars == <<container, exPc, exIdx, exDest, settled, closeCount, exOutcome>>
rpVars == <<rpPc, allFiles, otherFiles, zipEntries, output, rpOutcome>>
tfVars == <<format, limit, docs, origDocs, nextIndex, wPc, wIdx, wBuf, wRes,
            results, written, tfOutcome, ioFailed>>
mainVars == <<mainPc, mainError, outputBefore>>
stVars == <<stApplied>>
injVars == <<inj>>
vars == <<fs, pathVars, exVars, rpVars, tfVars, mainVars, stVars, injVars>>

\* what the steps of extractEpub leave alone
exFrame == <<pathVars, rpVars, tfVars, mainVars, stVars, injVars>>
\* what a call of resolveArchiveEntryPath alone leaves alone
pathFrame == <<fs, exVars, rpVars, tfVars, mainVars, stVars, injVars>>
\* what the steps of repackEpub leave alone
rpFrame == <<fs, pathVars, exVars, tfVars, mainVars, stVars, injVars>>
\* what the steps of the transform phase leave alone
tfFrame == <<pathVars, exVars, rpVars, mainVars, stVars, injVars>>

(***************************************************************************)
(* Strings.                                                                *)
(***************************************************************************)

\* the set of all strings over alphabet `chars` of length at most n
StringsUpTo(chars, n) == UNION {[1..k -> chars] : k \in 0..n}

\* String.prototype.startsWith
StartsWith(s, prefix) ==
    /\ Len(prefix) <= Len(s)
    /\ SubSeq(s, 1, Len(prefix)) = prefix

\* entryName.replace(/\\/g, "/")
ReplaceBackslashes(s) ==
    [i \in 1..Len(s) |-> IF s[i] = BACKSLASH THEN SLASH ELSE s[i]]

RECURSIVE SplitAcc(_, _, _, _)
SplitAcc(s, i, cur, acc) ==
    IF i > Len(s) THEN Append(acc, cur)
    ELSE IF s[i] = SLASH THEN SplitAcc(s, i + 1, <<>>, Append(acc, cur))
    ELSE SplitAcc(s, i + 1, Append(cur, s[i]), acc)

\* s.split("/")
SplitSlash(s) == SplitAcc(s, 1, <<>>, <<>>)

RECURSIVE JoinSlash(_)
\* "/" + segs.join("/"), and "" for no segment
JoinSlash(segs) ==
    IF segs = <<>> THEN <<>>
    ELSE <<SLASH>> \o Head(segs) \o JoinSlash(Tail(segs))

DOT == <<".">>
DOTDOT == <<".", ".">>

RECURSIVE NormalizeSegs(_, _, _)
\* node:path's normalizeString on an absolute path: empty and "." segments
\* are dropped, ".." removes the segment before it and is dropped at the top
NormalizeSegs(segs, i, out) ==
    IF i > Len(segs) THEN out
    ELSE IF segs[i] = <<>> \/ segs[i] = DOT THEN NormalizeSegs(segs, i + 1, out)
    ELSE IF segs[i] = DOTDOT
         THEN NormalizeSegs(segs, i + 1,
                            IF out = <<>> THEN out ELSE SubSeq(out, 1, Len(out) - 1))
    ELSE NormalizeSegs(segs, i + 1, Append(out, segs[i]))

\* the segments of the absolute path that path.resolve(base, name) returns,
\* for an absolute base
ResolveSegs(base, name) ==
    LET full == IF name # <<>> /\ name[1] = SLASH THEN name
                ELSE base \o <<SLASH>> \o name
    IN  NormalizeSegs(SplitSlash(full), 1, <<>>)

\* path.resolve(base, name) for an absolute base: "/" alone for no segment
PathResolve(base, name) ==
    LET segs == ResolveSegs(base, name)
    IN  IF segs = <<>> THEN <<SLASH>> ELSE JoinSlash(segs)

(***************************************************************************)
(* resolveArchiveEntryPath.                                                *)
(***************************************************************************)
\* the sandbox test of resolveArchiveEntryPath with the separator left out of
\* the prefix (a sibling whose name starts like the root passes)
IsInsideRootNoSep(rootPath, outputPath) ==
    outputPath = rootPath \/ StartsWith(outputPath, rootPath)

\* outputPath === rootPath || outputPath.startsWith(`${rootPath}${path.sep}`)
IsInsideRoot(rootPath, outputPath) ==
    outputPath = rootPath \/ StartsWith(outputPath, rootPath \o <<SLASH>>)

\* resolveArchiveEntryPath(root, entryName): [ok |-> TRUE, path |-> p] when it
\* returns p, [ok |-> FALSE, path |-> <<>>] when it throws
resolveArchiveEntryPath(root, entryName) ==
    LET normalizedEntryName == ReplaceBackslashes(entryName)
        rootPath == PathResolve(root, <<>>)
        outputPath == PathResolve(rootPath, normalizedEntryName)
    IN  IF ~IsInsideRoot(rootPath, outputPath)
        THEN [ok |-> FALSE, path |-> <<>>]
        ELSE [ok |-> TRUE, path |-> outputPath]

\* a filesystem holding nothing but "/"
EmptyFs == [x \in {} |-> x]

\* extractEpub not running
ExIdle ==
    /\ container = <<>>
    /\ exPc = "off"
    /\ exIdx = 0
    /\ exDest = <<>>
    /\ settled = FALSE
    /\ closeCount = 0
    /\ exOutcome = "pending"

\* repackEpub not running
RpIdle ==
    /\ rpPc = "off"
    /\ allFiles = <<>>
    /\ otherFiles = <<>>
    /\ zipEntries = <<>>
    /\ output = "absent"
    /\ rpOutcome = "pending"

\* the transform phase not running
TfIdle ==
    /\ format = "png"
    /\ limit = 1
    /\ docs = <<>>
    /\ origDocs = <<>>
    /\ nextIndex = 0
    /\ wPc = <<>>
    /\ wIdx = <<>>
    /\ wBuf = <<>>
    /\ wRes = <<>>
    /\ results = <<>>
    /\ written = <<>>
    /\ tfOutcome = "off"
    /\ ioFailed = FALSE

\* appendStylesIfMissingByFormat not called on its own
StIdle == stApplied = 0

\* injectSvgAttributes not called on its own
InjIdle == inj = [pc |-> "off"]

\* main not running: the operation is called on its own
MainIdle ==
    /\ mainPc = "off"
    /\ mainError = "none"
    /\ outputBefore = "absent"

\* resolveArchiveEntryPath not under test
PathIdle ==
    /\ pRoot = <<>>
    /\ pName = <<>>
    /\ pOut = [ok |-> FALSE, path |-> <<>>]
    /\ pPc = "off"

\* the characters entry names are drawn from
NameChars == {"t", "b", ".", SLASH, BACKSLASH}
\* the extraction roots resolveArchiveEntryPath is called with
Roots == { <<SLASH, "t">>, <<SLASH, "t", SLASH, "b">> }

PathInit ==
    /\ pRoot \in Roots
    /\ pName \in StringsUpTo(NameChars, MaxNameLen)
    /\ pOut = [ok |-> FALSE, path |-> <<>>]
    /\ pPc = "call"
    /\ fs = EmptyFs
    /\ ExIdle
    /\ RpIdle
    /\ TfIdle
    /\ MainIdle
    /\ StIdle
    /\ InjIdle

\* one call of resolveArchiveEntryPath(pRoot, pName)
ResolveCall ==
    /\ pPc = "call"
    /\ pPc' = "done"
    /\ pOut' = resolveArchiveEntryPath(pRoot, pName)
    /\ UNCHANGED <<pRoot, pName, pathFrame>>

PathNext == ResolveCall

SpecPath == PathInit /\ [][PathNext]_vars

\* the segments of `path` are those of `root` followed by zero or more others:
\* the path is the root or lies beneath it
SegsWithin(rootSegs, pathSegs) ==
    /\ Len(rootSegs) <= Len(pathSegs)
    /\ SubSeq(pathSegs, 1, Len(rootSegs)) = rootSegs

\* what the name resolves to, computed on segments: the root's segments when
\* the name is relative, then the name's own, "." and ".." applied in order
ResolvedSegsOf(root, name) == ResolveSegs(root, ReplaceBackslashes(name))

\* the absolute path an entry name denotes when extracted into ExtractRoot
ResolvedSegsToPath(name) ==
    LET segs == ResolvedSegsOf(ExtractRoot, name)
    IN  IF segs = <<>> THEN <<SLASH>> ELSE JoinSlash(segs)

\* C1: resolveArchiveEntryPath returns a path only when the resolved path is the
\* root or lies beneath it, the path it returns is the resolved one, and it
\* throws in every other case
C1_ResolveOnlyInsideRoot ==
    pPc = "done" =>
        LET rootSegs == ResolveSegs(pRoot, <<>>)
            segs == ResolvedSegsOf(pRoot, pName)
        IN  /\ pOut.ok => /\ SegsWithin(rootSegs, segs)
                          /\ pOut.path = JoinSlash(segs)
            /\ ~SegsWithin(rootSegs, segs) => ~pOut.ok /\ pOut.path = <<>>

\* a "..\"-escape was rejected
C1_Witness ==
    /\ pPc = "done"
    /\ ~pOut.ok
    /\ pName = <<".", ".", BACKSLASH, "t">>

(***************************************************************************)
(* The filesystem.                                                         *)
(***************************************************************************)
DirNode == [kind |-> "dir"]
FileNode(data) == [kind |-> "file", data |-> data]

\* what pipeline() leaves on disk when it fails part-way
PARTIAL == "partial"

IsDir(f, path) == path = <<SLASH>> \/ (path \in DOMAIN f /\ f[path].kind = "dir")
IsFile(f, path) == path \in DOMAIN f /\ f[path].kind = "file"

\* the path and every ancestor of it below "/"
PathChain(path) ==
    LET segs == ResolveSegs(path, <<>>)
    IN  {JoinSlash(SubSeq(segs, 1, k)) : k \in 1..Len(segs)}

\* path.dirname of a normalized absolute path
PathDirname(path) ==
    LET segs == ResolveSegs(path, <<>>)
    IN  IF Len(segs) <= 1 THEN <<SLASH>>
        ELSE JoinSlash(SubSeq(segs, 1, Len(segs) - 1))

\* mkdir(path, {recursive: true}) fails when the path or an ancestor is a file
MkdirCanSucceed(f, path) == \A q \in PathChain(path) : ~IsFile(f, q)

\* the filesystem after mkdir(path, {recursive: true})
MkdirP(f, path) ==
    [q \in DOMAIN f \cup PathChain(path) |->
        IF q \in DOMAIN f THEN f[q] ELSE DirNode]

\* a file can be opened for writing at path: its parent is a directory and the
\* path itself is not one
CanWriteFile(f, path) ==
    /\ path # <<SLASH>>
    /\ IsDir(f, PathDirname(path))
    /\ ~IsDir(f, path)

\* the filesystem after writing data to the file at path
WriteFile(f, path, data) ==
    [q \in DOMAIN f \cup {path} |-> IF q = path THEN FileNode(data) ELSE f[q]]

\* path is root or lies beneath it
PathWithin(root, path) ==
    SegsWithin(ResolveSegs(root, <<>>), ResolveSegs(path, <<>>))

\* rm(root, {recursive: true, force: true})
RmRecursive(f, root) ==
    [q \in {x \in DOMAIN f : ~PathWithin(root, x)} |-> f[q]]

(***************************************************************************)
(* extractEpub.                                                            *)
(***************************************************************************)
\* /\/$/.test(entry.fileName)
IsDirectoryEntry(fileName) == fileName # <<>> /\ fileName[Len(fileName)] = SLASH

\* finish(error?) without the settled flag: every call closes the archive and
\* settles again
FinishUnguarded(outcome) ==
    /\ settled' = TRUE
    /\ closeCount' = closeCount + 1
    /\ exOutcome' = IF exOutcome = "pending" THEN outcome ELSE exOutcome

\* finish(error?): the first call settles the promise and closes the archive,
\* later calls return at once
Finish(outcome) ==
    IF settled
    THEN UNCHANGED <<settled, closeCount, exOutcome>>
    ELSE /\ settled' = TRUE
         /\ closeCount' = closeCount + 1
         /\ exOutcome' = outcome

\* await mkdir(extractRoot, { recursive: true })
ExMkdirRoot ==
    /\ exPc = "mkroot"
    /\ \E ioOk \in BOOLEAN :
        IF ioOk /\ MkdirCanSucceed(fs, ExtractRoot)
        THEN /\ fs' = MkdirP(fs, ExtractRoot)
             /\ exPc' = "open"
             /\ UNCHANGED exOutcome
        ELSE /\ exPc' = "ended"
             /\ exOutcome' = "rejected"
             /\ UNCHANGED fs
    /\ UNCHANGED <<container, exIdx, exDest, settled, closeCount, exFrame>>

\* await openZipFile(inputPath), then the first zipFile.readEntry()
ExOpenZip ==
    /\ exPc = "open"
    /\ \E ioOk \in BOOLEAN :
        IF ioOk
        THEN exPc' = "reading" /\ UNCHANGED exOutcome
        ELSE exPc' = "ended" /\ exOutcome' = "rejected"
    /\ UNCHANGED <<fs, container, exIdx, exDest, settled, closeCount, exFrame>>

\* the "entry" event with processEntry taking the resolved path unchecked
ExEntryEventUnchecked ==
    /\ exPc = "reading"
    /\ exIdx < Len(container)
    /\ exIdx' = exIdx + 1
    /\ exDest' = PathResolve(ExtractRoot,
                             ReplaceBackslashes(container[exIdx + 1].fileName))
    /\ exPc' = "mkdir"
    /\ UNCHANGED <<settled, closeCount, exOutcome>>
    /\ UNCHANGED <<fs, container, exFrame>>

\* the "entry" event: processEntry runs up to its first await. The sandbox
\* check is its first statement; when it throws, the catch handler calls finish
ExEntryEvent ==
    /\ exPc = "reading"
    /\ exIdx < Len(container)
    /\ exIdx' = exIdx + 1
    /\ LET entry == container[exIdx + 1]
           destination == resolveArchiveEntryPath(ExtractRoot, entry.fileName)
       IN  IF ~destination.ok
           THEN /\ Finish("rejected")
                /\ exPc' = "ended"
                /\ UNCHANGED exDest
           ELSE /\ exDest' = destination.path
                /\ exPc' = "mkdir"
                /\ UNCHANGED <<settled, closeCount, exOutcome>>
    /\ UNCHANGED <<fs, container, exFrame>>

\* the directory mkdir() creates: the destination of a directory entry, the
\* parent of a file entry's destination
ExMkdirTarget ==
    IF IsDirectoryEntry(container[exIdx].fileName) THEN exDest
    ELSE PathDirname(exDest)

\* await mkdir(...) of processEntry completes; a directory entry is done then
\* and the next entry is requested
ExMkdirDone ==
    /\ exPc = "mkdir"
    /\ \E ioOk \in BOOLEAN :
        IF ioOk /\ MkdirCanSucceed(fs, ExMkdirTarget)
        THEN /\ fs' = MkdirP(fs, ExMkdirTarget)
             /\ exPc' = IF IsDirectoryEntry(container[exIdx].fileName)
                        THEN "reading" ELSE "openstream"
             /\ UNCHANGED <<settled, closeCount, exOutcome>>
        ELSE /\ Finish("rejected")
             /\ exPc' = "ended"
             /\ UNCHANGED fs
    /\ UNCHANGED <<container, exIdx, exDest, exFrame>>

\* await openEntryReadStream(zipFile, entry)
ExOpenStream ==
    /\ exPc = "openstream"
    /\ \E ioOk \in BOOLEAN :
        IF ioOk
        THEN exPc' = "pipeline" /\ UNCHANGED <<settled, closeCount, exOutcome>>
        ELSE Finish("rejected") /\ exPc' = "ended"
    /\ UNCHANGED <<fs, container, exIdx, exDest, exFrame>>

\* await pipeline(readStream, createWriteStream(destination)), then the next
\* zipFile.readEntry(); a failure leaves what was written so far
ExPipeline ==
    /\ exPc = "pipeline"
    /\ \E ioOk \in BOOLEAN :
        IF CanWriteFile(fs, exDest) /\ ioOk
        THEN /\ fs' = WriteFile(fs, exDest, container[exIdx].data)
             /\ exPc' = "reading"
             /\ UNCHANGED <<settled, closeCount, exOutcome>>
        ELSE /\ fs' = IF CanWriteFile(fs, exDest)
                      THEN WriteFile(fs, exDest, PARTIAL) ELSE fs
             /\ Finish("rejected")
             /\ exPc' = "ended"
    /\ UNCHANGED <<container, exIdx, exDest, exFrame>>

\* the "end" event: every entry has been delivered
ExEndEvent ==
    /\ exPc = "reading"
    /\ exIdx = Len(container)
    /\ Finish("resolved")
    /\ exPc' = "ended"
    /\ UNCHANGED <<fs, container, exIdx, exDest, exFrame>>

\* the "error" event: yauzl could not read the next entry
ExErrorEvent ==
    /\ exPc = "reading"
    /\ Finish("rejected")
    /\ exPc' = "ended"
    /\ UNCHANGED <<fs, container, exIdx, exDest, exFrame>>

\* an "error" event after finish has closed the archive (yauzl reports a
\* failed close of the file this way): finish is called again
ExLateErrorEvent ==
    /\ exPc \in {"ended", "late"}
    /\ settled
    /\ Finish("rejected")
    /\ exPc' = "late"
    /\ UNCHANGED <<fs, container, exIdx, exDest, exFrame>>

\* the entry names input containers are built from: files and directories
\* beneath the root, ".."-escapes, an absolute name, backslash separators
EntryNames == {
    <<"b">>,
    <<"t", SLASH>>,
    <<"t", SLASH, "b">>,
    <<"t", BACKSLASH, "b">>,
    <<".", ".", SLASH, "b", "b">>,
    <<".", ".", BACKSLASH, "t">>,
    <<"t", SLASH, ".", ".", SLASH, ".", ".", SLASH, "t">>,
    <<SLASH, "b">> }

Entries == [fileName : EntryNames, data : {"bytes"}]

\* the filesystem extractEpub starts in: mkdtemp has made TempRoot
ScratchFs == [q \in {TempRoot} |-> DirNode]

ExtractInit ==
    /\ fs = ScratchFs
    /\ container \in UNION {[1..n -> Entries] : n \in 0..MaxEntries}
    /\ exPc = "mkroot"
    /\ exIdx = 0
    /\ exDest = <<>>
    /\ settled = FALSE
    /\ closeCount = 0
    /\ exOutcome = "pending"
    /\ PathIdle
    /\ RpIdle
    /\ TfIdle
    /\ MainIdle
    /\ StIdle
    /\ InjIdle

ExtractNext ==
    \/ ExMkdirRoot
    \/ ExOpenZip
    \/ ExEntryEvent
    \/ ExMkdirDone
    \/ ExOpenStream
    \/ ExPipeline
    \/ ExEndEvent
    \/ ExErrorEvent
    \/ ExLateErrorEvent

SpecExtract == ExtractInit /\ [][ExtractNext]_vars

\* C2: every file and directory extractEpub creates lies in the extraction root
\* (nothing is created outside it, whatever the order and mix of safe and
\* unsafe entries), the filesystem changes for an entry only after that entry's
\* name has passed the sandbox check, and an entry whose name is rejected makes
\* extraction fail
C2_NoWriteOutsideRoot ==
    /\ \A q \in DOMAIN fs : q \in DOMAIN ScratchFs \/ PathWithin(ExtractRoot, q)
    /\ exPc \in {"mkdir", "openstream", "pipeline"} =>
          /\ resolveArchiveEntryPath(ExtractRoot, container[exIdx].fileName).ok
          /\ exDest = resolveArchiveEntryPath(ExtractRoot, container[exIdx].fileName).path
    /\ \A i \in 1..exIdx :
          ~PathWithin(ExtractRoot, ResolvedSegsToPath(container[i].fileName)) =>
              exOutcome = "rejected" /\ i = exIdx

\* extraction failed on an unsafe entry that came after a safe one was written
C2_Witness ==
    /\ exOutcome = "rejected"
    /\ exIdx = 2
    /\ container[2].fileName = <<".", ".", SLASH, "b", "b">>
    /\ IsFile(fs, ExtractRoot \o <<SLASH, "b">>)

(***************************************************************************)
(* Documents: a document is a sequence of tokens. A math start tag carries *)
(* its display attribute and what the renderer does with a node that       *)
(* begins with it.                                                         *)
(***************************************************************************)
Formats == {"png", "svg"}

TextToken == [t |-> "text"]
HeadCloseToken == [t |-> "headclose"]               \* </head>
MathCloseToken == [t |-> "mathclose"]               \* </math>
MathOpenToken(display, render) ==                   \* <math ...>
    [t |-> "mathopen", display |-> display, render |-> render]

\* what an svg converter can do with a node: return markup that begins with
\* <svg, with <svg after white space, with <SVG, with <svgx, with another
\* element, or throw
SvgCases == {"ok", "padded", "upper", "svgx", "other", "throw"}
\* what a png converter can do: return base64 text, the empty string, text
\* with a character outside the base64 alphabet, or throw
PngCases == {"ok", "empty", "badchar", "throw"}

RenderCases(fmt) == IF fmt = "svg" THEN SvgCases ELSE PngCases

\* converters.svg(mathXml, display) / converters.png(mathXml, display): the
\* string returned, as a sequence of pieces
ConverterOutput(fmt, render) ==
    IF fmt = "svg"
    THEN CASE render = "ok" -> <<"<svg", ">">>
           [] render = "padded" -> <<" ", "<svg", ">">>
           [] render = "upper" -> <<"<SVG", ">">>
           [] render = "svgx" -> <<"<svgx", ">">>
           [] OTHER -> <<"<div", ">">>
    ELSE CASE render = "ok" -> <<"Q", "=">>
           [] render = "empty" -> <<>>
           [] OTHER -> <<"Q", "!">>

RECURSIVE TrimStart(_)
TrimStart(str) ==
    IF str # <<>> /\ Head(str) = " " THEN TrimStart(Tail(str)) ELSE str

RECURSIVE TrimEnd(_)
TrimEnd(str) ==
    IF str # <<>> /\ str[Len(str)] = " "
    THEN TrimEnd(SubSeq(str, 1, Len(str) - 1)) ELSE str

\* String.prototype.trim
Trim(str) == TrimEnd(TrimStart(str))

\* the svg test without the trim
SvgTestPassesUntrimmed(svgMarkup) ==
    svgMarkup # <<>> /\ svgMarkup[1] \in {"<svg", "<SVG"}

\* /^<svg\b/i.test(svgMarkup.trim())
SvgTestPasses(svgMarkup) ==
    LET trimmed == Trim(svgMarkup)
    IN  trimmed # <<>> /\ trimmed[1] \in {"<svg", "<SVG"}

\* !(!pngBase64 || /[^A-Za-z0-9+/=]/.test(pngBase64))
PngTestPasses(pngBase64) ==
    /\ pngBase64 # <<>>
    /\ \A i \in 1..Len(pngBase64) : pngBase64[i] \in {"Q", "="}

\* the position of the first </math> after position j, 0 when there is none
FirstCloseAfter(doc, j) ==
    IF \E k \in (j + 1)..Len(doc) : doc[k].t = "mathclose"
    THEN CHOOSE k \in (j + 1)..Len(doc) :
            /\ doc[k].t = "mathclose"
            /\ \A m \in (j + 1)..(k - 1) : doc[m].t # "mathclose"
    ELSE 0

\* the start of the first match of /<math\b[\s\S]*?<\/math>/gi at or after
\* position i, 0 when there is none
NextMatchStart(doc, i) ==
    LET starts == {j \in i..Len(doc) :
                      doc[j].t = "mathopen" /\ FirstCloseAfter(doc, j) # 0}
    IN  IF starts = {} THEN 0
        ELSE CHOOSE j \in starts : \A m \in starts : j <= m

\* mathXml.match(/\sdisplay\s*=\s*(["'])(.*?)\1/i): the first display
\* attribute in the node's markup, then === "block"
DisplayIsBlock(mathXml) ==
    LET withAttr == {i \in 1..Len(mathXml) :
                        mathXml[i].t = "mathopen" /\ mathXml[i].display # "none"}
    IN  IF withAttr = {} THEN FALSE
        ELSE LET first == CHOOSE i \in withAttr : \A m \in withAttr : i <= m
             IN  mathXml[first].display = "block"

\* the class attribute given to a converted node
ClassName(fmt, display) ==
    IF fmt = "svg"
    THEN (IF display THEN "math-svg-block" ELSE "math-svg-inline")
    ELSE (IF display THEN "math-png-block" ELSE "math-png-inline")

\* what replaces a converted node: injectSvgAttributes(...) or
\* buildImgTagFromBase64(...)
ConvertedToken(fmt, className, rendered, mathXml) ==
    [t |-> "converted", format |-> fmt, class |-> className,
     rendered |-> rendered, source |-> mathXml]

\* the replace callback on one match: [ok |-> TRUE, markup |-> <<token>>] when
\* the node converts, [ok |-> FALSE, markup |-> mathXml] when the converter
\* throws or its output fails the test
ReplaceCallback(fmt, mathXml) ==
    LET render == mathXml[1].render
        display == DisplayIsBlock(mathXml)
        rendered == ConverterOutput(fmt, render)
        passes == IF fmt = "svg" THEN SvgTestPasses(rendered)
                  ELSE PngTestPasses(rendered)
    IN  IF render = "throw" \/ ~passes
        THEN [ok |-> FALSE, markup |-> mathXml]
        ELSE [ok |-> TRUE,
              markup |-> <<ConvertedToken(fmt, ClassName(fmt, display),
                                          rendered, mathXml)>>]

RECURSIVE ReplaceFrom(_, _, _)
\* original.replace(mathPattern, callback) from position i on:
\* [content |-> the rewritten text, count |-> convertedCount]
ReplaceFrom(fmt, doc, i) ==
    LET j == NextMatchStart(doc, i)
    IN  IF j = 0
        THEN [content |-> SubSeq(doc, i, Len(doc)), count |-> 0]
        ELSE LET k == FirstCloseAfter(doc, j)
                 node == ReplaceCallback(fmt, SubSeq(doc, j, k))
                 rest == ReplaceFrom(fmt, doc, k + 1)
             IN  [content |-> SubSeq(doc, i, j - 1) \o node.markup \o rest.content,
                  count |-> (IF node.ok THEN 1 ELSE 0) + rest.count]

\* injectSvgAttributes's /^<svg\b/i: the markup begins with the <svg tag
SvgRootAtStart(svg) == svg # <<>> /\ svg[1] \in {"<svg", "<SVG"}

\* the substituted markup carries the class name: an <img> always, an <svg>
\* when the replace of injectSvgAttributes found the tag at the very start
CarriesClass(token) ==
    token.format = "png" \/ SvgRootAtStart(token.rendered)

\* content.includes(className) when the style element is not counted
IncludesInElementsOnly(content, className) ==
    \E i \in 1..Len(content) :
        content[i].t = "converted" /\ content[i].class = className
                                   /\ CarriesClass(content[i])

\* content.includes(className)
Includes(content, className) ==
    \E i \in 1..Len(content) :
        \/ content[i].t = "converted" /\ content[i].class = className
                                      /\ CarriesClass(content[i])
        \/ content[i].t = "style" /\ \E display \in BOOLEAN :
                                        className = ClassName(content[i].format, display)

\* the injected <style> element: it names both classes of the format
StyleToken(fmt) == [t |-> "style", format |-> fmt]

\* content.includes("</head>")
HasHeadClose(content) == \E i \in 1..Len(content) : content[i].t = "headclose"

\* content.replace("</head>", `${styleTag}</head>`): the first </head> only
InsertStyle(fmt, content) ==
    LET h == CHOOSE i \in 1..Len(content) :
                /\ content[i].t = "headclose"
                /\ \A m \in 1..(i - 1) : content[m].t # "headclose"
    IN  SubSeq(content, 1, h - 1) \o <<StyleToken(fmt)>> \o
        SubSeq(content, h, Len(content))

\* appendStylesIfMissingByFormat decides to write
StylesMissing(fmt, content) ==
    /\ ~(Includes(content, ClassName(fmt, FALSE)) /\ Includes(content, ClassName(fmt, TRUE)))
    /\ HasHeadClose(content)

(***************************************************************************)
(* getAllFiles.                                                            *)
(***************************************************************************)
\* what readdir(dir) lists
Children(f, dir) == {q \in DOMAIN f : PathDirname(q) = dir}

\* every order in which readdir may list the set S
Orders(S) ==
    {o \in [1..Cardinality(S) -> S] : \A i, j \in 1..Cardinality(S) :
                                          o[i] = o[j] => i = j}

RECURSIVE GetAllFilesResults(_, _)
RECURSIVE WalkEntries(_, _, _)

\* the lists the loop of getAllFiles can build from entries order[i..]: a
\* directory contributes the files beneath it, a file itself
WalkEntries(f, order, i) ==
    IF i > Len(order) THEN {<<>>}
    ELSE LET here == IF IsDir(f, order[i])
                     THEN GetAllFilesResults(f, order[i])
                     ELSE {<<order[i]>>}
         IN  {h \o t : h \in here, t \in WalkEntries(f, order, i + 1)}

\* every list getAllFiles(root) can return: readdir's order is not specified
GetAllFilesResults(f, root) ==
    UNION {WalkEntries(f, order, 1) : order \in Orders(Children(f, root))}

(***************************************************************************)
(* String.prototype.localeCompare (the root collation).                    *)
(***************************************************************************)
\* U+00C5 and U+212B: canonically equivalent, one UTF-16 code unit each
A_RING == "A_RING"
ANGSTROM == "ANGSTROM"

LowerLetters ==
    <<"a", "b", "c", "d", "e", "f", "g", "h", "i", "j", "k", "l", "m",
      "n", "o", "p", "q", "r", "s", "t", "u", "v", "w", "x", "y", "z">>

IndexOf(seq, x) == CHOOSE i \in 1..Len(seq) : seq[i] = x

\* the characters of the model's paths
PathChars ==
    {LowerLetters[i] : i \in 1..Len(LowerLetters)} \cup
    {"B", A_RING, ANGSTROM, ".", SLASH, BACKSLASH}

\* the lower-case base letter of a letter
BaseLetter(c) ==
    CASE c \in {A_RING, ANGSTROM} -> "a"
      [] c = "B" -> "b"
      [] OTHER -> c

\* primary weight: punctuation before letters, a letter's case and accent
\* ignored
PrimaryWeight ==
    [c \in PathChars |->
        CASE c = "." -> 1
          [] c = SLASH -> 2
          [] c = BACKSLASH -> 3
          [] OTHER -> 3 + IndexOf(LowerLetters, BaseLetter(c))]

\* secondary weight: the accent
SecondaryWeight == [c \in PathChars |-> IF c \in {A_RING, ANGSTROM} THEN 1 ELSE 0]

\* tertiary weight: lower case before upper case
TertiaryWeight == [c \in PathChars |-> IF c \in {"B", A_RING, ANGSTROM} THEN 1 ELSE 0]

\* the UTF-16 code unit
CodeUnit ==
    [c \in PathChars |->
        CASE c = "." -> 46
          [] c = SLASH -> 47
          [] c = BACKSLASH -> 92
          [] c = "B" -> 66
          [] c = A_RING -> 197
          [] c = ANGSTROM -> 8491
          [] OTHER -> 96 + IndexOf(LowerLetters, c)]

RECURSIVE CompareBy(_, _, _, _)
\* -1, 0 or 1: a against b from position i on, by the weight w of each
\* character, a proper prefix first
CompareBy(w, a, b, i) ==
    IF i > Len(a) /\ i > Len(b) THEN 0
    ELSE IF i > Len(a) THEN -1
    ELSE IF i > Len(b) THEN 1
    ELSE IF w[a[i]] < w[b[i]] THEN -1
    ELSE IF w[a[i]] > w[b[i]] THEN 1
    ELSE CompareBy(w, a, b, i + 1)

\* a.localeCompare(b): the primary weights decide, then the secondary, then
\* the tertiary; canonically equivalent strings compare equal
localeCompare(a, b) ==
    LET p == CompareBy(PrimaryWeight, a, b, 1)
        q == CompareBy(SecondaryWeight, a, b, 1)
        r == CompareBy(TertiaryWeight, a, b, 1)
    IN  IF p # 0 THEN p ELSE IF q # 0 THEN q ELSE r

RECURSIVE InsertSorted(_, _)
\* x put into the sorted list after every element that does not compare
\* greater than it
InsertSorted(sorted, x) ==
    IF sorted = <<>> THEN <<x>>
    ELSE IF localeCompare(Head(sorted), x) <= 0
         THEN <<Head(sorted)>> \o InsertSorted(Tail(sorted), x)
    ELSE <<x>> \o sorted

RECURSIVE SortByLocaleCompare(_)
\* list.sort((a, b) => a.localeCompare(b)): Array.prototype.sort is stable
SortByLocaleCompare(list) ==
    IF list = <<>> THEN <<>>
    ELSE InsertSorted(SortByLocaleCompare(SubSeq(list, 1, Len(list) - 1)),
                      list[Len(list)])

(***************************************************************************)
(* repackEpub.                                                             *)
(***************************************************************************)
MIMETYPE == <<"m", "i", "m", "e", "t", "y", "p", "e">>

\* path.join(extractedRoot, "mimetype")
MimetypePath == ExtractRoot \o <<SLASH>> \o MIMETYPE

\* path.relative(extractedRoot, filePath) for a path beneath the root
PathRelative(root, path) == SubSeq(path, Len(root) + 2, Len(path))

\* allFiles.filter((filePath) => path.relative(root, filePath) !== "mimetype")
WithoutMimetype(files) ==
    LET F[i \in 0..Len(files)] ==
            IF i = 0 THEN <<>>
            ELSE IF PathRelative(ExtractRoot, files[i]) # MIMETYPE
                 THEN Append(F[i - 1], files[i])
            ELSE F[i - 1]
    IN  F[Len(files)]

\* the list of other files with the mimetype file left in
OtherFilesUnfiltered(files) == SortByLocaleCompare(files)

\* allFiles.filter(...).sort((a, b) => a.localeCompare(b))
OtherFiles(files) == SortByLocaleCompare(WithoutMimetype(files))

\* an entry added under the file's base name, its directories dropped
ZipEntryBaseName(realPath, archivePath, compress) ==
    LET segs == SplitSlash(archivePath)
    IN  [realPath |-> realPath, archivePath |-> segs[Len(segs)], compress |-> compress]

\* zipFile.addFile(realPath, archivePath, {compress})
ZipEntry(realPath, archivePath, compress) ==
    [realPath |-> realPath, archivePath |-> archivePath, compress |-> compress]

\* repackEpub going on to the listing without the stat of the mimetype file
RpStatUnchecked ==
    /\ rpPc = "stat"
    /\ rpPc' = "list"
    /\ UNCHANGED <<allFiles, otherFiles, zipEntries, output, rpOutcome, rpFrame>>

\* await stat(mimetypePath).catch(() => { throw ... })
RpStat ==
    /\ rpPc = "stat"
    /\ \E ioOk \in BOOLEAN :
        IF ioOk /\ MimetypePath \in DOMAIN fs
        THEN rpPc' = "list" /\ UNCHANGED rpOutcome
        ELSE rpPc' = "ended" /\ rpOutcome' = "missing-mimetype"
    /\ UNCHANGED <<allFiles, otherFiles, zipEntries, output, rpFrame>>

\* await getAllFiles(extractedRoot), then the filter and the sort
RpList ==
    /\ rpPc = "list"
    /\ \/ \E files \in GetAllFilesResults(fs, ExtractRoot) :
            /\ allFiles' = files
            /\ otherFiles' = OtherFiles(files)
            /\ rpPc' = "rm"
            /\ UNCHANGED rpOutcome
       \/ /\ rpPc' = "ended"
          /\ rpOutcome' = "rejected"
          /\ UNCHANGED <<allFiles, otherFiles>>
    /\ UNCHANGED <<zipEntries, output, rpFrame>>

\* await rm(outputPath, { force: true })
RpRm ==
    /\ rpPc = "rm"
    /\ \/ /\ output' = "absent"
          /\ rpPc' = "write"
          /\ UNCHANGED rpOutcome
       \/ /\ rpPc' = "ended"
          /\ rpOutcome' = "rejected"
          /\ UNCHANGED output
    /\ UNCHANGED <<allFiles, otherFiles, zipEntries, rpFrame>>

\* createWriteStream(outputPath), the pipe, addFile for mimetype and then for
\* each other file in list order, zipFile.end(): all in one turn
RpWrite ==
    /\ rpPc = "write"
    /\ zipEntries' =
          <<ZipEntry(MimetypePath, MIMETYPE, FALSE)>> \o
          [i \in 1..Len(otherFiles) |->
              ZipEntry(otherFiles[i], PathRelative(ExtractRoot, otherFiles[i]), TRUE)]
    /\ rpPc' = "completed"
    /\ UNCHANGED <<allFiles, otherFiles, output, rpOutcome, rpFrame>>

\* await completed with a stream error that arrives once the whole container
\* is on disk
RpCompletedLateError ==
    /\ rpPc = "completed"
    /\ output' = "complete"
    /\ rpOutcome' \in {"resolved", "rejected"}
    /\ rpPc' = "ended"
    /\ UNCHANGED <<allFiles, otherFiles, zipEntries, rpFrame>>

\* await completed: the output stream closes, or a stream fails
RpCompleted ==
    /\ rpPc = "completed"
    /\ \/ /\ output' = "complete"
          /\ rpOutcome' = "resolved"
       \/ /\ output' \in {"absent", "partial"}
          /\ rpOutcome' = "rejected"
    /\ rpPc' = "ended"
    /\ UNCHANGED <<allFiles, otherFiles, zipEntries, rpFrame>>

\* the relative paths scratch trees are built from
TreeNames == {
    MIMETYPE,
    <<"a">>,
    <<"B">>,
    <<A_RING>>,
    <<ANGSTROM>>,
    <<"d", SLASH, "a">>,
    <<"d", SLASH>> \o MIMETYPE }

\* the scratch filesystem holding the files named: TempRoot, the root, the
\* files and the directories above them
TreeFs(names) ==
    LET paths == {ExtractRoot \o <<SLASH>> \o n : n \in names}
        all == UNION {PathChain(q) : q \in paths \cup {ExtractRoot}}
    IN  [q \in all |-> IF q \in paths THEN FileNode(PathRelative(ExtractRoot, q))
                       ELSE DirNode]

RepackInit ==
    /\ \E names \in SUBSET TreeNames :
          /\ Cardinality(names) <= MaxTreeFiles
          /\ fs = TreeFs(names)
    /\ rpPc = "stat"
    /\ allFiles = <<>>
    /\ otherFiles = <<>>
    /\ zipEntries = <<>>
    /\ output \in {"old", "absent"}
    /\ rpOutcome = "pending"
    /\ PathIdle
    /\ ExIdle
    /\ TfIdle
    /\ mainPc = "off"
    /\ mainError = "none"
    /\ outputBefore = output
    /\ StIdle
    /\ InjIdle

RepackNext ==
    \/ RpStat
    \/ RpList
    \/ RpRm
    \/ RpWrite
    \/ RpCompleted

SpecRepack == RepackInit /\ [][RepackNext]_vars

\* the number of entries of the container with the archive path given
EntryCount(archivePath) ==
    Cardinality({i \in 1..Len(zipEntries) : zipEntries[i].archivePath = archivePath})

\* C3: the container repackEpub writes has mimetype as its first entry, stored
\* without compression, and no other entry named mimetype
C3_MimetypeFirstStoredOnce ==
    rpOutcome = "resolved" =>
        /\ zipEntries # <<>>
        /\ zipEntries[1].archivePath = MIMETYPE
        /\ zipEntries[1].realPath = MimetypePath
        /\ ~zipEntries[1].compress
        /\ EntryCount(MIMETYPE) = 1

\* a container was written from a tree that holds other files, one of them a
\* mimetype file in a subdirectory
C3_Witness ==
    /\ rpOutcome = "resolved"
    /\ output = "complete"
    /\ Len(zipEntries) >= 3
    /\ \E i \in 2..Len(zipEntries) :
          zipEntries[i].archivePath = <<"d", SLASH>> \o MIMETYPE

\* the files beneath the scratch root other than the root-level mimetype
OtherTreeFiles ==
    {q \in DOMAIN fs : IsFile(fs, q) /\ PathWithin(ExtractRoot, q) /\ q # MimetypePath}

\* the archive-relative paths of the set of files given, in ascending
\* lexicographic (code unit) order
LexicographicRelativePaths(files) ==
    LET rel == {PathRelative(ExtractRoot, q) : q \in files}
    IN  CHOOSE o \in Orders(rel) :
            \A i, j \in 1..Len(o) : i < j => CompareBy(CodeUnit, o[i], o[j], 1) < 0

\* C4: in the container repackEpub writes, the entries after mimetype are all
\* the other files beneath the scratch root in ascending lexicographic order of
\* their archive-relative path, each compressed, and so the same whatever the
\* order in which the directories were enumerated
C4_OthersLexicographic ==
    rpOutcome = "resolved" =>
        LET expected == LexicographicRelativePaths(OtherTreeFiles)
        IN  /\ Len(zipEntries) = 1 + Len(expected)
            /\ \A i \in 1..Len(expected) :
                  /\ zipEntries[i + 1].archivePath = expected[i]
                  /\ zipEntries[i + 1].compress

(***************************************************************************)
(* The transform phase: the per-document operation of main's loop          *)
(* (convertMathInFileByFormat, then appendStylesIfMissingByFormat when the *)
(* document changed), run by the workers of the concurrency scheduler.     *)
(***************************************************************************)
\* an empty result slot
NoResult == [changed |-> FALSE, count |-> -1]

Min(a, b) == IF a < b THEN a ELSE b
Max(a, b) == IF a > b THEN a ELSE b

\* the number of workers with an unbounded pool: one per document
WorkerCountUnclamped(n, concurrency) == n

\* the number of workers: the limit, at least 1 and at most the number of
\* documents
WorkerCount(n, concurrency) == Min(Max(1, concurrency), n)

\* the scheduler starts: the result slots are sized, and each worker claims a
\* document and begins its operation (the read of the document is under way)
TfStart ==
    /\ tfOutcome = "ready"
    /\ LET n == WorkerCount(Len(docs), limit)
       IN  /\ wPc' = [w \in 1..n |-> "read"]
           /\ wIdx' = [w \in 1..n |-> w]
           /\ wBuf' = [w \in 1..n |-> <<>>]
           /\ wRes' = [w \in 1..n |-> NoResult]
           /\ nextIndex' = n
           /\ tfOutcome' = IF n = 0 THEN "resolved" ELSE "pending"
    /\ results' = [i \in 1..Len(docs) |-> NoResult]
    /\ UNCHANGED <<fs, format, limit, docs, origDocs, written, ioFailed, tfFrame>>

\* the slot a worker's result is stored in: the index of its document
ResultSlot(w) == wIdx[w]

\* a worker's operation returned: the result goes into the slot of its
\* document, and the worker claims the next unclaimed index or ends; the phase
\* resolves when the last worker ends
OpReturn(w, result) ==
    /\ results' = [results EXCEPT ![ResultSlot(w)] = result]
    /\ IF nextIndex < Len(docs)
       THEN /\ nextIndex' = nextIndex + 1
            /\ wIdx' = [wIdx EXCEPT ![w] = nextIndex + 1]
            /\ wPc' = [wPc EXCEPT ![w] = "read"]
            /\ UNCHANGED tfOutcome
       ELSE /\ wPc' = [wPc EXCEPT ![w] = "done"]
            /\ tfOutcome' = IF /\ tfOutcome = "pending"
                               /\ \A v \in DOMAIN wPc \ {w} : wPc[v] = "done"
                            THEN "resolved" ELSE tfOutcome
            /\ UNCHANGED <<nextIndex, wIdx>>

\* a worker's operation threw: the worker ends and the phase rejects with the
\* first error
OpThrow(w) ==
    /\ wPc' = [wPc EXCEPT ![w] = "failed"]
    /\ tfOutcome' = IF tfOutcome = "pending" THEN "rejected" ELSE tfOutcome
    /\ UNCHANGED <<nextIndex, wIdx, results>>

\* the result of convertMathInFileByFormat with a count that is kept across
\* calls instead of starting at 0
ConvertResultShared(count) ==
    LET before == {i \in 1..Len(results) : results[i] # NoResult /\ results[i].changed}
    IN  [changed |-> TRUE, count |-> count + Cardinality(before)]

\* { changed: true, count: convertedCount }
ConvertResult(count) == [changed |-> TRUE, count |-> count]

\* convertMathInFileByFormat decides to write after a replace that converted
\* `count` nodes, whatever the count
ShouldWriteAlways(count) == TRUE

\* convertMathInFileByFormat writes unless convertedCount === 0
ShouldWrite(count) == count # 0

\* convertMathInFileByFormat from the completion of readFile to its return or
\* to the call of writeFile
CvRead(w) ==
    /\ w \in DOMAIN wPc
    /\ wPc[w] = "read"
    /\ \E ioOk \in BOOLEAN :
        IF ioOk /\ IsFile(fs, docs[wIdx[w]])
        THEN LET original == fs[docs[wIdx[w]]].data
                 replaced == ReplaceFrom(format, original, 1)
             IN  IF NextMatchStart(original, 1) = 0 \/ ~ShouldWrite(replaced.count)
                 THEN /\ OpReturn(w, [changed |-> FALSE, count |-> 0])
                      /\ UNCHANGED <<wBuf, wRes, written, ioFailed>>
                 ELSE /\ wBuf' = [wBuf EXCEPT ![w] = replaced.content]
                      /\ wRes' = [wRes EXCEPT ![w] = ConvertResult(replaced.count)]
                      /\ written' = Append(written, docs[wIdx[w]])
                      /\ wPc' = [wPc EXCEPT ![w] = "write"]
                      /\ UNCHANGED <<nextIndex, wIdx, results, tfOutcome, ioFailed>>
        ELSE OpThrow(w) /\ ioFailed' = TRUE /\ UNCHANGED <<wBuf, wRes, written>>
    /\ UNCHANGED <<fs, format, limit, docs, origDocs, tfFrame>>

\* writeFile(filePath, replaced) completes and convertMathInFileByFormat
\* returns changed; main calls appendStylesIfMissingByFormat, whose read of
\* the document is then under way
CvWrite(w) ==
    /\ w \in DOMAIN wPc
    /\ wPc[w] = "write"
    /\ \E ioOk \in BOOLEAN :
        IF ioOk /\ CanWriteFile(fs, docs[wIdx[w]])
        THEN /\ fs' = WriteFile(fs, docs[wIdx[w]], wBuf[w])
             /\ wPc' = [wPc EXCEPT ![w] = "styles-read"]
             /\ UNCHANGED <<nextIndex, wIdx, results, tfOutcome, ioFailed>>
        ELSE OpThrow(w) /\ ioFailed' = TRUE /\ UNCHANGED fs
    /\ UNCHANGED <<format, limit, docs, origDocs, wBuf, wRes, written, tfFrame>>

\* appendStylesIfMissingByFormat from the completion of readFile to its return
\* or to the call of writeFile
StRead(w) ==
    /\ w \in DOMAIN wPc
    /\ wPc[w] = "styles-read"
    /\ \E ioOk \in BOOLEAN :
        IF ioOk /\ IsFile(fs, docs[wIdx[w]])
        THEN LET content == fs[docs[wIdx[w]]].data
             IN  IF StylesMissing(format, content)
                 THEN /\ wBuf' = [wBuf EXCEPT ![w] = InsertStyle(format, content)]
                      /\ written' = Append(written, docs[wIdx[w]])
                      /\ wPc' = [wPc EXCEPT ![w] = "styles-write"]
                      /\ UNCHANGED <<nextIndex, wIdx, results, tfOutcome, ioFailed>>
                 ELSE /\ OpReturn(w, wRes[w])
                      /\ UNCHANGED <<wBuf, written, ioFailed>>
        ELSE OpThrow(w) /\ ioFailed' = TRUE /\ UNCHANGED <<wBuf, written>>
    /\ UNCHANGED <<fs, format, limit, docs, origDocs, wRes, tfFrame>>

\* writeFile(xhtmlFilePath, updated) of appendStylesIfMissingByFormat
\* completes: the operation on this document is over
StWrite(w) ==
    /\ w \in DOMAIN wPc
    /\ wPc[w] = "styles-write"
    /\ \E ioOk \in BOOLEAN :
        IF ioOk /\ CanWriteFile(fs, docs[wIdx[w]])
        THEN /\ fs' = WriteFile(fs, docs[wIdx[w]], wBuf[w])
             /\ OpReturn(w, wRes[w])
             /\ UNCHANGED ioFailed
        ELSE OpThrow(w) /\ ioFailed' = TRUE /\ UNCHANGED fs
    /\ UNCHANGED <<format, limit, docs, origDocs, wBuf, wRes, written, tfFrame>>

\* totalConverted and filesChanged: the sums main keeps over the results
TotalConverted ==
    LET S[i \in 0..Len(results)] ==
            IF i = 0 THEN 0
            ELSE S[i - 1] + (IF results[i].changed THEN results[i].count ELSE 0)
    IN  S[Len(results)]

FilesChanged == Cardinality({i \in 1..Len(results) : results[i].changed})

(***************************************************************************)
(* The transformer on one document.                                        *)
(***************************************************************************)
\* the path of the i-th document of the scratch tree
DocPath(i) == ExtractRoot \o <<SLASH, LowerLetters[i], ".", "h", "t", "m">>

\* the tokens document bodies are built from
BodyTokens(fmt) ==
    {TextToken, MathCloseToken, MathOpenToken("block", "ok")} \cup
    {MathOpenToken("none", r) : r \in RenderCases(fmt)}

\* the documents given to the transformer: a head that ends with </head> or
\* no head, then a body
Documents(fmt) ==
    {head \o body : head \in {<<>>, <<HeadCloseToken>>},
                    body \in StringsUpTo(BodyTokens(fmt), MaxDocLen)}

\* the scratch filesystem holding the documents given, in list order
DocsFs(contents) ==
    LET paths == {DocPath(i) : i \in 1..Len(contents)}
        all == UNION {PathChain(q) : q \in paths \cup {ExtractRoot}}
    IN  [q \in all |->
            IF q \in paths
            THEN FileNode(contents[CHOOSE i \in 1..Len(contents) : DocPath(i) = q])
            ELSE DirNode]

\* the transform phase about to start on the documents given
TfReady(contents) ==
    /\ fs = DocsFs(contents)
    /\ docs = [i \in 1..Len(contents) |-> DocPath(i)]
    /\ origDocs = contents
    /\ nextIndex = 0
    /\ wPc = <<>>
    /\ wIdx = <<>>
    /\ wBuf = <<>>
    /\ wRes = <<>>
    /\ results = <<>>
    /\ written = <<>>
    /\ tfOutcome = "ready"
    /\ ioFailed = FALSE

ConvertInit ==
    /\ format \in Formats
    /\ limit = 1
    /\ \E d \in Documents(format) : TfReady(<<d>>)
    /\ PathIdle
    /\ ExIdle
    /\ RpIdle
    /\ MainIdle
    /\ StIdle
    /\ InjIdle

ConvertNext ==
    \/ TfStart
    \/ \E w \in DOMAIN wPc : CvRead(w)
    \/ \E w \in DOMAIN wPc : CvWrite(w)
    \/ \E w \in DOMAIN wPc : StRead(w)
    \/ \E w \in DOMAIN wPc : StWrite(w)

SpecConvert == ConvertInit /\ [][ConvertNext]_vars

\* the positions where a math node of the document starts: a <math> tag with a
\* </math> after it that is not inside an earlier node (no <math> tag lies
\* between the closest </math> before it and itself)
NodeStarts(doc) ==
    {j \in 1..Len(doc) :
        /\ doc[j].t = "mathopen"
        /\ \E k \in (j + 1)..Len(doc) : doc[k].t = "mathclose"
        /\ \A m \in 1..(j - 1) :
              doc[m].t = "mathopen" =>
                  \E c \in (m + 1)..(j - 1) : doc[c].t = "mathclose"}

\* the position where the node that starts at j ends
NodeEnd(doc, j) ==
    CHOOSE k \in (j + 1)..Len(doc) :
        /\ doc[k].t = "mathclose"
        /\ \A m \in (j + 1)..(k - 1) : doc[m].t # "mathclose"

\* the renderer outcomes that convert a node: svg output that, once trimmed,
\* begins with the <svg tag in either letter case; non-empty base64 png text
ConvertingCases(fmt) == IF fmt = "svg" THEN {"ok", "padded", "upper"} ELSE {"ok"}

\* the renderer outcomes the claim's wording counts as well-formed: svg output
\* whose text starts with "<svg"; non-empty base64 png text
StartsWithSvgCases(fmt) == IF fmt = "svg" THEN {"ok", "svgx"} ELSE {"ok"}

\* the number of nodes of the document whose renderer outcome is in `good`
GoodNodeCount(doc, good) ==
    Cardinality({j \in NodeStarts(doc) : doc[j].render \in good})

RECURSIVE ExpectedContent(_, _, _, _)
\* the document from position i on with each node whose outcome is in `good`
\* replaced by its converted markup and everything else kept as it is
ExpectedContent(fmt, doc, i, good) ==
    IF i > Len(doc) THEN <<>>
    ELSE IF i \in NodeStarts(doc) /\ doc[i].render \in good
         THEN LET mathXml == SubSeq(doc, i, NodeEnd(doc, i))
              IN  <<ConvertedToken(fmt, ClassName(fmt, DisplayIsBlock(mathXml)),
                                   ConverterOutput(fmt, doc[i].render), mathXml)>>
                  \o ExpectedContent(fmt, doc, NodeEnd(doc, i) + 1, good)
    ELSE <<doc[i]>> \o ExpectedContent(fmt, doc, i + 1, good)

\* worker w has come back from convertMathInFileByFormat with a result
ConvertReturned(w) ==
    wPc[w] \in {"styles-read", "styles-write"} \/ results[wIdx[w]] # NoResult

\* C7: convertMathInFileByFormat calls writeFile if and only if at least one
\* node was converted; for a document with no math node or with only failing
\* nodes the file keeps its content, the result is {changed: false, count: 0}
\* and main does not call appendStylesIfMissingByFormat
C7_WritesIffConverted ==
    \A w \in DOMAIN wPc :
        LET i == wIdx[w]
            n == GoodNodeCount(origDocs[i], ConvertingCases(format))
        IN  /\ (wPc[w] = "write" \/ ConvertReturned(w)) =>
                  (written # <<>> <=> n >= 1)
            /\ n = 0 =>
                  /\ written = <<>>
                  /\ fs[docs[i]].data = origDocs[i]
                  /\ wPc[w] \notin {"write", "styles-read", "styles-write"}
                  /\ results[i] \in {NoResult, [changed |-> FALSE, count |-> 0]}
            /\ results[i] # NoResult => (results[i].changed <=> n >= 1)

\* a document whose nodes all failed came back unchanged
C7_Witness ==
    /\ tfOutcome = "resolved"
    /\ Len(docs) = 1
    /\ results[1] = [changed |-> FALSE, count |-> 0]
    /\ Cardinality(NodeStarts(origDocs[1])) = 2
    /\ fs[docs[1]].data = origDocs[1]

\* the transform of a document under the outcomes `good`: it throws on no
\* renderer failure, what it writes is the document with exactly the nodes
\* that converted replaced and the others verbatim in place, and the count it
\* returns is the number of nodes that converted
TransformMatches(good) ==
    \A w \in DOMAIN wPc :
        LET i == wIdx[w]
            expected == ExpectedContent(format, origDocs[i], 1, good)
            n == GoodNodeCount(origDocs[i], good)
        IN  /\ wPc[w] = "failed" => ioFailed
            /\ wPc[w] = "write" => wBuf[w] = expected /\ wRes[w].count = n
            /\ wPc[w] = "styles-read" => fs[docs[i]].data = expected
            /\ results[i] # NoResult =>
                  /\ results[i].count = n
                  /\ n = 0 => fs[docs[i]].data = expected

\* C8 as amended: whatever subset of a document's nodes fails (the renderer
\* throws; svg: its output, once trimmed, does not begin with the <svg tag in
\* either letter case; png: its output is empty or holds a non-base64
\* character), the transform does not throw, each failing node stays verbatim
\* in place, every other node is replaced and the count is the number of nodes
\* that succeeded
C8_NodeLocalFailure == TransformMatches(ConvertingCases(format))

\* C8 as stated: malformed svg output is output that does not start with
\* "<svg"
C8_AsStated == TransformMatches(StartsWithSvgCases(format))

\* a document with one failing and one converting node was rewritten with
\* count 1
C8_Witness ==
    /\ tfOutcome = "resolved"
    /\ Len(docs) = 1
    /\ results[1] = [changed |-> TRUE, count |-> 1]
    /\ Cardinality(NodeStarts(origDocs[1])) = 2
    /\ \E j \in NodeStarts(origDocs[1]) : origDocs[1][j].render = "throw"

(***************************************************************************)
(* The transform phase on a list of documents.                             *)
(***************************************************************************)
\* the documents the lists are built from: one without math, one with a head,
\* a failing and a converting node, one with an inline and a block node
PhaseDocuments(fmt) == {
    <<TextToken>>,
    <<HeadCloseToken, MathOpenToken("none", "throw"), MathCloseToken,
      MathOpenToken("none", "ok"), MathCloseToken>>,
    <<MathOpenToken("none", "ok"), MathCloseToken,
      MathOpenToken("block", "ok"), MathCloseToken>> }

SchedInit ==
    /\ format \in Formats
    /\ limit \in 1..MaxLimit
    /\ \E n \in 0..MaxDocs : \E contents \in [1..n -> PhaseDocuments(format)] :
          TfReady(contents)
    /\ PathIdle
    /\ ExIdle
    /\ RpIdle
    /\ MainIdle
    /\ StIdle
    /\ InjIdle

SchedNext ==
    \/ TfStart
    \/ \E w \in DOMAIN wPc : CvRead(w)
    \/ \E w \in DOMAIN wPc : CvWrite(w)
    \/ \E w \in DOMAIN wPc : StRead(w)
    \/ \E w \in DOMAIN wPc : StWrite(w)

SpecSched == SchedInit /\ [][SchedNext]_vars

\* the workers whose operation is in flight
InFlight ==
    {w \in DOMAIN wPc : wPc[w] \in {"read", "write", "styles-read", "styles-write"}}

\* the result of the per-document operation on a document
ExpectedResult(doc) ==
    LET n == GoodNodeCount(doc, ConvertingCases(format))
    IN  IF n = 0 THEN [changed |-> FALSE, count |-> 0]
        ELSE [changed |-> TRUE, count |-> n]

\* C9: never more operations in flight than the configured limit, no document
\* is worked on by two workers, the slot of a document holds the result of
\* that document whatever the completion order, and when the phase resolves
\* the operation has run on every document
C9_BoundedInFlightOrdered ==
    /\ Cardinality(InFlight) <= limit
    /\ \A v, w \in InFlight : wIdx[v] = wIdx[w] => v = w
    /\ \A i \in 1..Len(results) :
          results[i] # NoResult => results[i] = ExpectedResult(origDocs[i])
    /\ tfOutcome = "resolved" =>
          /\ Len(results) = Len(docs)
          /\ \A i \in 1..Len(docs) : results[i] # NoResult

\* two documents under limit 2: the second document has completed before the
\* first, whose operation is still in flight, and their results differ
C9_Witness ==
    /\ limit = 2
    /\ Len(docs) = 2
    /\ Cardinality(InFlight) = 1
    /\ results[1] = NoResult
    /\ results[2] # NoResult
    /\ results[2] # ExpectedResult(origDocs[1])

\* the sum of the counts of the documents that change
ExpectedTotal ==
    LET S[i \in 0..Len(origDocs)] ==
            IF i = 0 THEN 0 ELSE S[i - 1] + ExpectedResult(origDocs[i]).count
    IN  S[Len(origDocs)]

\* the content of a document after the operation: its nodes converted, and the
\* style element before </head> when a class is missing and there is a head
ExpectedFinalContent(doc) ==
    LET converted == ExpectedContent(format, doc, 1, ConvertingCases(format))
    IN  IF ExpectedResult(doc).changed /\ StylesMissing(format, converted)
        THEN InsertStyle(format, converted)
        ELSE converted

\* C10: when the phase resolves, the per-document results, the totals and the
\* documents on disk are those the document list and the renderer outcomes
\* determine: the same under every limit and every interleaving of the workers
C10_DeterministicResults ==
    tfOutcome = "resolved" =>
        /\ results = [i \in 1..Len(origDocs) |-> ExpectedResult(origDocs[i])]
        /\ TotalConverted = ExpectedTotal
        /\ FilesChanged =
              Cardinality({i \in 1..Len(origDocs) : ExpectedResult(origDocs[i]).changed})
        /\ \A i \in 1..Len(docs) :
              fs[docs[i]].data = ExpectedFinalContent(origDocs[i])

\* two documents that both change were transformed by two workers
C10_Witness ==
    /\ tfOutcome = "resolved"
    /\ limit = 2
    /\ Len(docs) = 2
    /\ FilesChanged = 2
    /\ TotalConverted = 3

(***************************************************************************)
(* main: the pipeline driver. mkdtemp, then inside try: extraction, the    *)
(* list of documents, the loop over them (one operation at a time), the    *)
(* repacking; the finally block removes the scratch directory.             *)
(***************************************************************************)
\* String.prototype.toLowerCase on a character of the model's paths
ToLowerCase(c) == BaseLetter(c)

\* path.extname(filePath).toLowerCase(): from the last "." of the last
\* segment on, "" when it has none or only a leading one
LowerExtname(filePath) ==
    LET segs == SplitSlash(filePath)
        base == IF segs = <<>> THEN <<>> ELSE segs[Len(segs)]
        dots == {i \in 2..Len(base) : base[i] = "."}
    IN  IF dots = {} THEN <<>>
        ELSE LET d == CHOOSE i \in dots : \A k \in dots : k <= i
             IN  [i \in 1..(Len(base) - d + 1) |-> ToLowerCase(base[d + i - 1])]

XHTML_EXTENSIONS == {
    <<".", "x", "h", "t", "m", "l">>,
    <<".", "h", "t", "m", "l">>,
    <<".", "h", "t", "m">> }

\* allFiles.filter((filePath) => XHTML_EXTENSIONS.has(...))
XhtmlFiles(files) ==
    LET F[i \in 0..Len(files)] ==
            IF i = 0 THEN <<>>
            ELSE IF LowerExtname(files[i]) \in XHTML_EXTENSIONS
                 THEN Append(F[i - 1], files[i])
            ELSE F[i - 1]
    IN  F[Len(files)]

\* what rm leaves of the filesystem when it removes the extraction root only
AfterCleanupBookOnly(f) == RmRecursive(f, ExtractRoot)

\* the filesystem after rm(tempRoot, { recursive: true, force: true })
AfterCleanup(f) == RmRecursive(f, TempRoot)

\* the loop's outcome does not stop main
ProceedsAfterAny(outcome) == TRUE

\* an awaited phase that rejects throws out of the try block; main goes on
\* only when it resolved
Proceeds(outcome) == outcome = "resolved"

\* mkdtemp makes the scratch directory, the try block is entered and
\* extraction into extractRoot begins; when mkdtemp throws, main ends with
\* that error and nothing was created
MainMkdtemp ==
    /\ mainPc = "start"
    /\ \E ioOk \in BOOLEAN :
        IF ioOk /\ MkdirCanSucceed(fs, TempRoot)
        THEN /\ fs' = MkdirP(fs, TempRoot)
             /\ exPc' = "mkroot"
             /\ mainPc' = "extract"
             /\ UNCHANGED mainError
        ELSE /\ mainPc' = "exited"
             /\ mainError' = "mkdtemp"
             /\ UNCHANGED <<fs, exPc>>
    /\ UNCHANGED <<container, exIdx, exDest, settled, closeCount, exOutcome,
                   outputBefore, pathVars, stVars, injVars, rpVars, tfVars>>

\* extraction has settled: getAllFiles and the extension filter give the
\* documents and the loop is about to start, or the error leaves the try block
MainExtracted ==
    /\ mainPc = "extract"
    /\ exPc = "ended"
    /\ IF Proceeds(exOutcome)
       THEN \E files \in GetAllFilesResults(fs, ExtractRoot) :
               LET xhtmlFiles == XhtmlFiles(files)
               IN  /\ docs' = xhtmlFiles
                   /\ origDocs' = [i \in 1..Len(xhtmlFiles) |-> fs[xhtmlFiles[i]].data]
                   /\ tfOutcome' = "ready"
                   /\ mainPc' = "transform"
                   /\ UNCHANGED mainError
       ELSE /\ mainPc' = "finally"
            /\ mainError' = "extract"
            /\ UNCHANGED <<docs, origDocs, tfOutcome>>
    /\ UNCHANGED <<fs, format, limit, nextIndex, wPc, wIdx, wBuf, wRes, results,
                   written, ioFailed, outputBefore, pathVars, stVars, injVars, exVars, rpVars>>

\* the loop is over: repackEpub is called, or the error of a document's
\* operation leaves the try block
MainTransformed ==
    /\ mainPc = "transform"
    /\ tfOutcome \in {"resolved", "rejected"}
    /\ IF Proceeds(tfOutcome)
       THEN /\ rpPc' = "stat"
            /\ mainPc' = "repack"
            /\ UNCHANGED mainError
       ELSE /\ mainPc' = "finally"
            /\ mainError' = "transform"
            /\ UNCHANGED rpPc
    /\ UNCHANGED <<fs, allFiles, otherFiles, zipEntries, output, rpOutcome,
                   outputBefore, pathVars, stVars, injVars, exVars, tfVars>>

\* repackEpub has settled: the summary is logged, or its error leaves the try
\* block
MainRepacked ==
    /\ mainPc = "repack"
    /\ rpPc = "ended"
    /\ mainPc' = "finally"
    /\ mainError' = IF Proceeds(rpOutcome) THEN "none" ELSE "repack"
    /\ UNCHANGED <<fs, outputBefore, pathVars, stVars, injVars, exVars, rpVars, tfVars>>

\* the finally block: the scratch directory is removed, then main returns or
\* its error reaches main().catch, which reports it and exits
MainFinally ==
    /\ mainPc = "finally"
    /\ fs' = AfterCleanup(fs)
    /\ mainPc' = "exited"
    /\ UNCHANGED <<mainError, outputBefore, pathVars, stVars, injVars, exVars, rpVars, tfVars>>

\* the documents of the input containers
MainDocuments == {
    <<TextToken>>,
    <<HeadCloseToken, MathOpenToken("none", "throw"), MathCloseToken,
      MathOpenToken("none", "ok"), MathCloseToken>> }

\* the entries input containers are built from: the mimetype file, documents,
\* an asset in a directory, an entry that escapes the root
MainEntries ==
    [fileName : {MIMETYPE, <<"d", SLASH, "a">>, <<".", ".", SLASH, "b", "b">>},
     data : {<<TextToken>>}] \cup
    [fileName : {<<"a", ".", "h", "t", "m">>}, data : MainDocuments] \cup
    [fileName : {<<"B", ".", "h", "t", "m", "l">>}, data : {<<TextToken>>}]

MainInit ==
    /\ fs = EmptyFs
    /\ container \in UNION {[1..n -> MainEntries] : n \in 0..MaxEntries}
    /\ exPc = "off"
    /\ exIdx = 0
    /\ exDest = <<>>
    /\ settled = FALSE
    /\ closeCount = 0
    /\ exOutcome = "pending"
    /\ rpPc = "off"
    /\ allFiles = <<>>
    /\ otherFiles = <<>>
    /\ zipEntries = <<>>
    /\ output \in {"old", "absent"}
    /\ rpOutcome = "pending"
    /\ format \in Formats
    /\ limit = 1
    /\ docs = <<>>
    /\ origDocs = <<>>
    /\ nextIndex = 0
    /\ wPc = <<>>
    /\ wIdx = <<>>
    /\ wBuf = <<>>
    /\ wRes = <<>>
    /\ results = <<>>
    /\ written = <<>>
    /\ tfOutcome = "off"
    /\ ioFailed = FALSE
    /\ mainPc = "start"
    /\ mainError = "none"
    /\ outputBefore = output
    /\ PathIdle
    /\ StIdle
    /\ InjIdle

MainNext ==
    \/ MainMkdtemp
    \/ ExMkdirRoot
    \/ ExOpenZip
    \/ ExEntryEvent
    \/ ExMkdirDone
    \/ ExOpenStream
    \/ ExPipeline
    \/ ExEndEvent
    \/ ExErrorEvent
    \/ MainExtracted
    \/ TfStart
    \/ \E w \in DOMAIN wPc : CvRead(w)
    \/ \E w \in DOMAIN wPc : CvWrite(w)
    \/ \E w \in DOMAIN wPc : StRead(w)
    \/ \E w \in DOMAIN wPc : StWrite(w)
    \/ MainTransformed
    \/ RpStat
    \/ RpList
    \/ RpRm
    \/ RpWrite
    \/ RpCompleted
    \/ MainRepacked
    \/ MainFinally

SpecMain == MainInit /\ [][MainNext]_vars

\* C5: when main has ended after mkdtemp made the scratch directory, the
\* directory and everything beneath it are gone, whether the phases all
\* succeeded or extraction, the transformation or the repacking failed
C5_ScratchRemoved ==
    mainPc = "exited" /\ mainError # "mkdtemp" =>
        \A q \in DOMAIN fs : ~PathWithin(TempRoot, q)

\* main ended on a failed transformation after a document had been rewritten
\* in the scratch directory
C5_Witness ==
    /\ mainPc = "exited"
    /\ mainError = "transform"
    /\ written # <<>>
    /\ TempRoot \notin DOMAIN fs

\* C6: the transformation begins only once extraction has resolved, repacking
\* begins only once the operation on every document, style injection
\* included, has returned; when extraction or the transformation fails
\* repackEpub is never called, the file at the output path is as it was
\* before the run, and main ends with the error of the phase that failed
C6_PhasesInOrder ==
    /\ tfOutcome # "off" => exPc = "ended" /\ exOutcome = "resolved"
    /\ rpPc # "off" =>
          /\ tfOutcome = "resolved"
          /\ \A w \in DOMAIN wPc : wPc[w] = "done"
          /\ \A i \in 1..Len(docs) : results[i] # NoResult
    /\ exOutcome = "rejected" \/ tfOutcome = "rejected" =>
          /\ rpPc = "off"
          /\ zipEntries = <<>>
          /\ output = outputBefore
          /\ mainPc = "exited" =>
                mainError = IF exOutcome = "rejected" THEN "extract" ELSE "transform"

\* main ended with the transformation's error, and the file that was at the
\* output path is still there
C6_Witness ==
    /\ mainPc = "exited"
    /\ tfOutcome = "rejected"
    /\ mainError = "transform"
    /\ outputBefore = "old"
    /\ output = "old"

(***************************************************************************)
(* repackEpub: the marker check.                                           *)
(***************************************************************************)
\* C11: while the stat of the mimetype file has not passed, the file at the
\* output path is as it was and nothing has been listed or added; a scratch
\* root without a root-level mimetype entry makes repackEpub fail with the
\* missing-mimetype error, and then the output file was never removed and no
\* container was written
C11_MarkerCheckFirst ==
    /\ rpPc = "stat" \/ rpOutcome = "missing-mimetype" =>
          /\ output = outputBefore
          /\ allFiles = <<>>
          /\ zipEntries = <<>>
    /\ rpPc \notin {"off", "stat"} /\ MimetypePath \notin DOMAIN fs =>
          /\ rpPc = "ended"
          /\ rpOutcome = "missing-mimetype"
    /\ output # outputBefore =>
          /\ MimetypePath \in DOMAIN fs
          /\ rpOutcome # "missing-mimetype"

\* repackEpub failed on a tree whose only mimetype file lies in a directory,
\* and the file that was at the output path is still there
C11_Witness ==
    /\ rpPc = "ended"
    /\ rpOutcome = "missing-mimetype"
    /\ MimetypePath \notin DOMAIN fs
    /\ ExtractRoot \o <<SLASH, "d", SLASH>> \o MIMETYPE \in DOMAIN fs
    /\ outputBefore = "old"
    /\ output = "old"

(***************************************************************************)
(* main: how an invocation ends.                                           *)
(***************************************************************************)
\* the phases of the run that failed
FailedPhases ==
    (IF mainError = "mkdtemp" THEN {"mkdtemp"} ELSE {}) \cup
    (IF exOutcome = "rejected" THEN {"extract"} ELSE {}) \cup
    (IF tfOutcome = "rejected" THEN {"transform"} ELSE {}) \cup
    (IF rpOutcome \in {"rejected", "missing-mimetype"} THEN {"repack"} ELSE {})

MayBeValidContainer(o) == o \in {"complete", "old"}

FileEntryIndexes ==
    {i \in 1..Len(container) : ~IsDirectoryEntry(container[i].fileName)}

\* the paths of the files extraction of the whole container produces
ExtractedPaths == {ResolvedSegsToPath(container[i].fileName) : i \in FileEntryIndexes}

\* the bytes extraction leaves at path q: those of the last entry written there
ExtractedData(q) ==
    LET at == {i \in FileEntryIndexes : ResolvedSegsToPath(container[i].fileName) = q}
    IN  container[CHOOSE i \in at : \A k \in at : k <= i].data

\* the extracted files that are not documents
AssetPaths == {q \in ExtractedPaths : LowerExtname(q) \notin XHTML_EXTENSIONS}

StylePositions(content) == {i \in 1..Len(content) : content[i].t = "style"}

\* C14: once the phase has resolved, a document that changed and has </head>
\* holds exactly one style block, right before the first </head>, whatever
\* the mix of inline and block nodes converted in it; a changed document
\* without </head> holds none
C14_OneStyleBlockWhenChanged ==
    tfOutcome = "resolved" =>
        \A i \in 1..Len(docs) :
            results[i].changed =>
                LET content == fs[docs[i]].data
                    at == StylePositions(content)
                IN  IF HasHeadClose(origDocs[i])
                    THEN /\ Cardinality(at) = 1
                         /\ \A k \in at :
                               /\ k < Len(content)
                               /\ content[k + 1].t = "headclose"
                               /\ \A m \in 1..k : content[m].t # "headclose"
                    ELSE at = {}

(***************************************************************************)
(* appendStylesIfMissingByFormat called on a document, again and again.    *)
(***************************************************************************)
\* the tokens of the documents it is given: text, </head>, the style block
\* of either format, substituted elements of either format and class, an
\* <svg> that did not get its class
StyledTokens ==
    {TextToken, HeadCloseToken} \cup
    {StyleToken(fmt) : fmt \in Formats} \cup
    {ConvertedToken(fmt, ClassName(fmt, display), ConverterOutput(fmt, "ok"),
                    <<MathOpenToken("none", "ok"), MathCloseToken>>) :
        fmt \in Formats, display \in BOOLEAN} \cup
    {ConvertedToken("svg", ClassName("svg", FALSE), ConverterOutput("svg", "padded"),
                    <<MathOpenToken("none", "padded"), MathCloseToken>>)}

StylesInit ==
    /\ format \in Formats
    /\ \E d \in StringsUpTo(StyledTokens, MaxStyledLen) :
          /\ fs = DocsFs(<<d>>)
          /\ origDocs = <<d>>
    /\ docs = <<DocPath(1)>>
    /\ limit = 1
    /\ nextIndex = 0
    /\ wPc = <<>>
    /\ wIdx = <<>>
    /\ wBuf = <<>>
    /\ wRes = <<>>
    /\ results = <<>>
    /\ written = <<>>
    /\ tfOutcome = "off"
    /\ ioFailed = FALSE
    /\ stApplied = 0
    /\ PathIdle
    /\ ExIdle
    /\ RpIdle
    /\ MainIdle
    /\ InjIdle

\* one call of appendStylesIfMissingByFormat(docs[1], format), from its
\* readFile to its return
AppendStylesCall ==
    /\ tfOutcome = "off"
    /\ docs # <<>>
    /\ stApplied < MaxApplications
    /\ stApplied' = stApplied + 1
    /\ LET content == fs[docs[1]].data
       IN  IF StylesMissing(format, content)
           THEN /\ fs' = WriteFile(fs, docs[1], InsertStyle(format, content))
                /\ written' = Append(written, docs[1])
           ELSE UNCHANGED <<fs, written>>
    /\ UNCHANGED <<format, limit, docs, origDocs, nextIndex, wPc, wIdx, wBuf, wRes,
                   results, tfOutcome, ioFailed, pathVars, exVars, rpVars, mainVars,
                   injVars>>

StylesNext == AppendStylesCall

SpecStyles == StylesInit /\ [][StylesNext]_vars

\* the style blocks of the format in a document
FormatStylePositions(fmt, content) ==
    {i \in StylePositions(content) : content[i].format = fmt}

\* C15: after any number of calls the document is what the first call made
\* it, writeFile was called at most once, and the document holds at most one
\* style block of the format unless it held more before the first call
C15_AppendStylesIdempotent ==
    stApplied >= 1 =>
        LET orig == origDocs[1]
            content == fs[docs[1]].data
            once == IF StylesMissing(format, orig) THEN InsertStyle(format, orig)
                    ELSE orig
        IN  /\ content = once
            /\ Len(written) <= 1
            /\ Cardinality(FormatStylePositions(format, content)) <=
                  Max(1, Cardinality(FormatStylePositions(format, orig)))

\* the second call found the style block the first call had injected and
\* left the document alone
C15_Witness ==
    /\ stApplied = 2
    /\ written = <<DocPath(1)>>
    /\ FormatStylePositions(format, origDocs[1]) = {}
    /\ Cardinality(FormatStylePositions(format, fs[docs[1]].data)) = 1

(***************************************************************************)
(* The display mode of a node.                                             *)
(***************************************************************************)
\* C16: every substituted element carries the block class when the <math>
\* tag of the node it replaces has display="block" and the inline class
\* otherwise, a node whose <math> tag has no display attribute included
C16_DisplayFromOwnAttribute ==
    tfOutcome = "resolved" =>
        \A i \in 1..Len(docs) :
            LET content == fs[docs[i]].data
            IN  \A k \in 1..Len(content) :
                    content[k].t = "converted" =>
                        content[k].class =
                            ClassName(format, content[k].source[1].display = "block")

(***************************************************************************)
(* extractEpub: the order of the entries and the settling of the promise.  *)
(***************************************************************************)
\* where entry i of the container is extracted to
EntryDestination(i) == ResolvedSegsToPath(container[i].fileName)

\* the number of entries whose processEntry has returned
ProcessedCount ==
    IF exPc = "reading" \/ exOutcome = "resolved" THEN exIdx
    ELSE IF exIdx = 0 THEN 0 ELSE exIdx - 1

\* the state shows the entries handled one at a time in container order:
\* every entry processed so far is on disk in full (a file holds the bytes of
\* the last processed entry extracted to its path), and nothing on disk comes
\* from an entry that has not been delivered yet
InEntryOrder ==
    /\ exIdx <= Len(container)
    /\ \A i \in 1..ProcessedCount :
          IF IsDirectoryEntry(container[i].fileName)
          THEN IsDir(fs, EntryDestination(i))
          ELSE \/ exIdx > ProcessedCount /\ EntryDestination(exIdx) = EntryDestination(i)
               \/ /\ IsFile(fs, EntryDestination(i))
                  /\ \E j \in i..ProcessedCount :
                        /\ EntryDestination(j) = EntryDestination(i)
                        /\ fs[EntryDestination(i)].data = container[j].data
    /\ \A q \in DOMAIN fs :
          \/ q \in PathChain(ExtractRoot)
          \/ \E i \in 1..exIdx : q \in PathChain(EntryDestination(i))

\* the promise settles once and the archive is closed once
SettledOnce ==
    /\ closeCount <= 1
    /\ settled <=> closeCount = 1
    /\ settled => exOutcome # "pending"
    /\ exOutcome = "rejected" => exPc \in {"ended", "late"}

\* C17: extractEpub handles the entries one at a time in container order, each
\* fully written before the next is requested; the promise is settled and the
\* archive closed at most once; and once the promise has rejected no further
\* entry is delivered, nothing more is written, the outcome stays and a later
\* error event closes nothing again
C17_SerialFirstFailureSettlesOnce ==
    /\ [](InEntryOrder /\ SettledOnce)
    /\ [][/\ exIdx' \in {exIdx, exIdx + 1}
          /\ exIdx' = exIdx + 1 => exPc = "reading"
          /\ exOutcome = "rejected" =>
                /\ exIdx' = exIdx
                /\ fs' = fs
                /\ exOutcome' = "rejected"
                /\ closeCount' = closeCount
          /\ exOutcome = "resolved" => exOutcome' = "resolved"]_vars

\* the second entry's write failed after the first entry had been written;
\* the promise rejected, the archive was closed once and a later error event
\* has come
C17_Witness ==
    /\ exPc = "late"
    /\ exOutcome = "rejected"
    /\ exIdx = 2
    /\ Len(container) = 2
    /\ closeCount = 1
    /\ IsFile(fs, EntryDestination(1))
    /\ fs[EntryDestination(1)].data = container[1].data
    /\ EntryDestination(2) # EntryDestination(1)
    /\ IsFile(fs, EntryDestination(2))
    /\ fs[EntryDestination(2)].data = PARTIAL

-----------------------------------------------------------------------------
\* injectSvgAttributes on its own.  An <svg> markup is the sequence of its
\* elements in document order, the root first; an element is the record of
\* the four attributes the function looks at, each present or not with its
\* value.  A class value is the sequence of its names, any other value the
\* sequence of its characters.  The field ariaLabel is the attribute
\* aria-label.

NoAttr == [present |-> FALSE, value |-> <<>>]

Attr(v) == [present |-> TRUE, value |-> v]

\* the namespace the function looks for and declares
SVG_NAMESPACE == <<"http://www.w3.org/2000/svg">>

\* the class names of svg mode, as convertMathInFileByFormat passes them
SvgClassNames(display) ==
    IF display = "block" THEN <<"math-svg", "math-svg-block">>
                         ELSE <<"math-svg", "math-svg-inline">>

\* value.replace(/c/g, rep), on a sequence of characters
RECURSIVE ReplaceAll(_, _, _)
ReplaceAll(value, c, rep) ==
    IF value = <<>> THEN <<>>
    ELSE (IF Head(value) = c THEN rep ELSE <<Head(value)>>)
             \o ReplaceAll(Tail(value), c, rep)

escapeAttributeValue(value) ==
    LET amp  == ReplaceAll(value, "&", <<"&", "a", "m", "p", ";">>)
        quot == ReplaceAll(amp, "\"", <<"&", "q", "u", "o", "t", ";">>)
        lt   == ReplaceAll(quot, "<", <<"&", "l", "t", ";">>)
    IN  ReplaceAll(lt, ">", <<"&", "g", "t", ";">>)

\* the index of the element holding the first match of an attribute's
\* pattern in the markup, 0 when the pattern matches nowhere: the patterns
\* are not anchored to the root's tag
FirstWith(svg, name) ==
    LET having == {k \in 1..Len(svg) : svg[k][name].present}
    IN  IF having = {} THEN 0
        ELSE CHOOSE k \in having : \A m \in having : k <= m

\* updated.replace(/^<svg\b/i, '<svg name="value"'): the attribute is written
\* into the root's tag
OnRoot(svg, name, v) == [svg EXCEPT ![1][name] = Attr(v)]

injectSvgAttributes(svg, className, altText) ==
    LET c  == FirstWith(svg, "class")
        s1 == IF c # 0
                THEN [svg EXCEPT ![c]["class"] =
                          Attr(svg[c]["class"].value \o className)]
                ELSE OnRoot(svg, "class", className)
        s2 == IF FirstWith(s1, "xmlns") = 0
                THEN OnRoot(s1, "xmlns", SVG_NAMESPACE) ELSE s1
        s3 == IF altText # <<>> /\ FirstWith(s2, "role") = 0
                THEN OnRoot(s2, "role", <<"i", "m", "g">>) ELSE s2
        s4 == IF altText # <<>> /\ FirstWith(s3, "ariaLabel") = 0
                THEN OnRoot(s3, "ariaLabel", escapeAttributeValue(altText))
                ELSE s3
    IN  s4

\* the elements the call is tried on: each attribute absent or present
SvgElements(ownClass) ==
    [ class        : {NoAttr, Attr(<<ownClass>>)},
      xmlns        : {NoAttr, Attr(SVG_NAMESPACE)},
      role         : {NoAttr, Attr(<<"i", "m", "g">>)},
      ariaLabel :   {NoAttr, Attr(<<"y">>)} ]

\* the alt texts the call is tried on: none (extractAltText returned null),
\* a plain one, one with every character that is escaped
AltTexts == {<<>>, <<"x">>, <<"a", "&", "\"", "<", ">">>}

InjectInit ==
    /\ \E root \in SvgElements("r") :
       \E rest \in StringsUpTo(SvgElements("d"), MaxDescendants) :
       \E display \in {"inline", "block"} :
       \E alt \in AltTexts :
          inj = [pc |-> "ready", svg |-> <<root>> \o rest,
                 className |-> SvgClassNames(display), altText |-> alt,
                 out |-> <<>>]
    /\ fs = [q \in {<<>>} |-> DirNode]
    /\ PathIdle
    /\ ExIdle
    /\ RpIdle
    /\ TfIdle
    /\ MainIdle
    /\ StIdle

InjectCall ==
    /\ inj.pc = "ready"
    /\ inj' = [inj EXCEPT !.pc = "done",
                          !.out = injectSvgAttributes(inj.svg, inj.className,
                                                      inj.altText)]
    /\ UNCHANGED <<fs, pathVars, exVars, rpVars, tfVars, mainVars, stVars>>

InjectNext == InjectCall

SpecInject == InjectInit /\ [][InjectNext]_vars

\* the value the root's attribute is to have after the call when it is added
\* only if the root did not have it
AddedIfMissing(name, v) ==
    inj.out[1][name] = IF inj.svg[1][name].present THEN inj.svg[1][name]
                                                   ELSE Attr(v)

\* C18: after the call the root carries the semantic class, merged into its
\* own class attribute when it has one, carries the namespace declaration,
\* and when there is an alt text carries role="img" and the escaped alt text
\* as aria-label, each added only when the root did not have it; the
\* descendant elements are as they were.
C18_RootAttributesOnly ==
    inj.pc = "done" =>
        /\ Len(inj.out) = Len(inj.svg)
        /\ inj.out[1]["class"] =
               IF inj.svg[1]["class"].present
                 THEN Attr(inj.svg[1]["class"].value \o inj.className)
                 ELSE Attr(inj.className)
        /\ AddedIfMissing("xmlns", SVG_NAMESPACE)
        /\ IF inj.altText # <<>>
             THEN /\ AddedIfMissing("role", <<"i", "m", "g">>)
                  /\ AddedIfMissing("ariaLabel",
                                    escapeAttributeValue(inj.altText))
             ELSE /\ inj.out[1]["role"] = inj.svg[1]["role"]
                  /\ inj.out[1]["ariaLabel"] = inj.svg[1]["ariaLabel"]
        /\ \A k \in 2..Len(inj.svg) : inj.out[k] = inj.svg[k]

====
